---- MODULE Spec2Model ----
(***************************************************************************)
(* Model of ts-bot.py: a Telegram bot that relays TeamSpeak presence.      *)
(*                                                                         *)
(* Texts are sequences of atoms.  An atom is a one-character string, or a  *)
(* word of letters that no escaping rule touches ("Initializing").  The    *)
(* Telegram side (what the Bot API does with a request) is part of the     *)
(* model because the code reads its answers back: edit_message_text and    *)
(* send_message return the stored Message, and text_markdown_v2 rebuilds   *)
(* the markup from it.                                                     *)
(***************************************************************************)
EXTENDS Integers, Sequences, FiniteSets, TLC

\* ------------------------------------------------------------------ bounds
\* entries in one presence answer of the concurrent model
MaxBody == 1
\* message identifiers a chat hands out
MaxMsgId == 2
\* the counter of live messages created saturates here
MaxCreated == 2

\* --------------------------------------------------------------- optionals
\* Python's None / a present value, as a sequence of length 0 / 1
None == <<>>
Some(x) == <<x>>
Val(o) == o[1]

\* ------------------------------------------------------------------- texts
\* telegram.helpers.escape_markdown(text) with its default version=1
\* (the backquote, also escaped, is in no text of the model)
V1Special == {"_", "*", "["}
\* escape_markdown(text, version=2), used by Message.text_markdown_v2
V2Special == {"\\", "_", "*", "[", "]", "(", ")", "~", ">", "#", "+",
              "-", "=", "|", "{", "}", ".", "!"}
\* characters MarkdownV2 rejects when they are not escaped (and are no markup)
Reserved == {"]", "(", ")", ">", "#", "+", "-", "=", "{", "}", ".", "!"}

RECURSIVE escape_markdown(_)
escape_markdown(x) ==
    IF x = <<>> THEN <<>>
    ELSE (IF Head(x) \in V1Special THEN <<"\\", Head(x)>> ELSE <<Head(x)>>)
         \o escape_markdown(Tail(x))

NumStr(n) == <<"0", "1", "2", "3", "4", "5", "6", "7", "8", "9">>[n + 1]

\* ", ".join(xs) for a list of texts
RECURSIVE JoinComma(_)
JoinComma(xs) ==
    IF xs = <<>> THEN <<>>
    ELSE IF Len(xs) = 1 THEN xs[1]
    ELSE xs[1] \o <<",", " ">> \o JoinComma(Tail(xs))

\* the loop over away[1:]
RECURSIVE AwayRest(_)
AwayRest(xs) ==
    IF xs = <<>> THEN <<>>
    ELSE <<",", " ", "_">> \o escape_markdown(Head(xs)) \o <<"_">>
         \o AwayRest(Tail(xs))

\* a variant that styles the away members as one span
format_user_listOneSpan(active, away) ==
    <<NumStr(Len(active)), "\\", "+", "_", NumStr(Len(away)), "_", ":", " ">>
    \o JoinComma([i \in 1..Len(active) |-> escape_markdown(active[i])])
    \o (IF Len(away) > 0
        THEN <<" ", "\\", "+", " ", "_">>
             \o JoinComma([i \in 1..Len(away) |-> escape_markdown(away[i])])
             \o <<"_">>
        ELSE <<>>)

format_user_list(active, away) ==
    LET head == <<NumStr(Len(active)), "\\", "+", "_", NumStr(Len(away)),
                  "_", ":", " ">>
        act == JoinComma([i \in 1..Len(active) |-> escape_markdown(active[i])])
        first == IF Len(away) > 0
                 THEN <<" ", "\\", "+", " ", "_">>
                      \o escape_markdown(away[1]) \o <<"_">>
                 ELSE <<>>
        rest == IF Len(away) > 0 THEN AwayRest(Tail(away)) ELSE <<>>
    IN head \o act \o first \o rest

\* ------------------------------------------------- the presence fetcher
\* ASCII order of the characters nicknames are made of
CharOrder == <<".", "B", "_", "a", "b", "c">>
Ord(c) == CHOOSE i \in 1..Len(CharOrder) : CharOrder[i] = c
\* str.lower on one character
LowerChar(c) == IF c = "B" THEN "b" ELSE c
Lower(x) == [i \in 1..Len(x) |-> LowerChar(x[i])]

\* x < y for Python strings
RECURSIVE StrLess(_, _)
StrLess(x, y) ==
    IF y = <<>> THEN FALSE
    ELSE IF x = <<>> THEN TRUE
    ELSE IF Head(x) # Head(y) THEN Ord(Head(x)) < Ord(Head(y))
    ELSE StrLess(Tail(x), Tail(y))

\* the lists that hold the elements of S once each, in any order
Orders(S) ==
    {q \in [1..Cardinality(S) -> S] : \A x \in S : \E i \in DOMAIN q : q[i] = x}

\* sorted(S, key=str.lower) of a set of nicknames: the list is ascending by
\* key; nicknames of equal key keep the order in which the set yields them,
\* which Python leaves open (it follows the hashes and the insertions), so
\* every ascending order is a possible result
SortedLower(S) ==
    {q \in Orders(S) :
        \A i \in 1..(Len(q) - 1) : ~StrLess(Lower(q[i + 1]), Lower(q[i]))}

\* line 28: the entries of real users
Users(body) == {i \in 1..Len(body) : body[i].client_type = "0"}

\* an away-only variant: the output-mute flag is not looked at
AwayNicknamesMuteIgnored(body) ==
    {body[i].client_nickname : i \in
        {j \in Users(body) : body[j].client_away = "1"}}

\* line 29
AwayNicknames(body) ==
    {body[i].client_nickname : i \in
        {j \in Users(body) : body[j].client_away = "1"
                                \/ body[j].client_output_muted = "1"}}

\* line 32
AllNicknames(body) == {body[i].client_nickname : i \in Users(body)}

\* get_user_list on the decoded body of the answer: the results it may give
get_user_list(body) ==
    LET away_nicknames == AwayNicknames(body)
        all_nicknames == AllNicknames(body)
        active_nicknames == all_nicknames \ away_nicknames
    IN SortedLower(active_nicknames) \X SortedLower(away_nicknames)

\* the answers the presence endpoint may give
Nicknames == {<<"a">>, <<"c", ".">>}
ClientEntries ==
    [client_type : {"0", "1"}, client_nickname : Nicknames,
     client_away : {"0", "1"}, client_output_muted : {"0", "1"}]
RECURSIVE SeqsUpTo(_, _)
SeqsUpTo(S, n) ==
    IF n = 0 THEN {<<>>}
    ELSE LET shorter == SeqsUpTo(S, n - 1)
         IN shorter \cup {Append(q, x) : q \in shorter, x \in S}
Bodies == SeqsUpTo(ClientEntries, MaxBody)
Snapshots == UNION {get_user_list(b) : b \in Bodies}

\* ------------------------------------------------------- the Telegram side
\* A stored text: its characters, each with the italic entity covering it.
Plain(s) == [i \in 1..Len(s) |-> [c |-> s[i], it |-> FALSE]]

\* parse_mode="MarkdownV2": a backslash makes the next character literal, an
\* underscore opens or closes italic, an unescaped reserved character or an
\* italic left open is "can't parse entities"
RECURSIVE ParseMarkdownV2(_, _, _)
ParseMarkdownV2(s, it, out) ==
    IF s = <<>> THEN [ok |-> ~it, text |-> out]
    ELSE IF Head(s) = "\\" /\ Len(s) >= 2
         THEN ParseMarkdownV2(Tail(Tail(s)), it,
                              Append(out, [c |-> s[2], it |-> it]))
    ELSE IF Head(s) = "_" THEN ParseMarkdownV2(Tail(s), ~it, out)
    ELSE IF Head(s) \in Reserved THEN [ok |-> FALSE, text |-> <<>>]
    ELSE ParseMarkdownV2(Tail(s), it, Append(out, [c |-> Head(s), it |-> it]))

\* Telegram strips the white space at both ends of a message text
RECURSIVE Strip(_)
Strip(r) ==
    IF r = <<>> THEN r
    ELSE IF Head(r).c = " " THEN Strip(Tail(r))
    ELSE IF r[Len(r)].c = " " THEN Strip(SubSeq(r, 1, Len(r) - 1))
    ELSE r

\* what the server stores for a request text: [ok, text]
Stored(body, mode) ==
    IF mode = "MarkdownV2"
    THEN LET p == ParseMarkdownV2(body, FALSE, <<>>)
         IN [ok |-> p.ok /\ Strip(p.text) # <<>>, text |-> Strip(p.text)]
    ELSE [ok |-> Strip(Plain(body)) # <<>>, text |-> Strip(Plain(body))]

\* Message.text_markdown_v2: the markup rebuilt from text and entities
RECURSIVE Markup(_, _)
Markup(r, it) ==
    IF r = <<>> THEN (IF it THEN <<"_">> ELSE <<>>)
    ELSE (IF Head(r).it # it THEN <<"_">> ELSE <<>>)
         \o (IF Head(r).c \in V2Special THEN <<"\\", Head(r).c>>
             ELSE <<Head(r).c>>)
         \o Markup(Tail(r), Head(r).it)
text_markdown_v2(msg) == Markup(msg.text, FALSE)

\* text="Initializing..."
Initializing == <<"Initializing", ".", ".", ".">>

\* ---------------------------------------------------------------- the state
Procs == {"tick", "cmd"}
\* bot_data["allowed_groups"], from ALLOWED_GROUPS
allowed_groups == {1, 2}
\* the chats updates come from: the allowed ones and a stranger
Chats == allowed_groups \cup {3}
MsgIds == 1..MaxMsgId
\* the messages Telegram is modelled to hold: those of the allowed chats
Keys == allowed_groups \X MsgIds
Commands == {"help", "whoami", "ts", "tslive"}

VARIABLES
    live_msg,   \* bot_data["live_msg"]: None or the Message last stored
    file,       \* config/live_chat_id.txt: None or [chat_id, message_id]
    srv,        \* Telegram: the messages a live status was or is shown in
    pc,         \* where each invocation stands (an await, or idle / done)
    req,        \* the Bot API request an invocation awaits
    resp,       \* Telegram's answer to it, not yet delivered to the coroutine
    eff,        \* what the invocation in progress has done so far
    created,    \* live messages sent by create-requests in this process
    sent,       \* None or the (chat_id, message_id) of the last of them
    payload,    \* a presence answer handed to get_user_list
    fetched,    \* None or the (active, away) lists it returned for payload
    earlier,    \* None or the lists returned for the same entries in an
                \* earlier order
    formatted   \* None or format_user_list of the lists fetched

\* the bot and Telegram / the fetcher and formatter taken alone
bot == <<live_msg, file, srv, pc, req, resp, eff, created, sent>>
pure == <<payload, fetched, earlier, formatted>>
vars == <<bot, pure>>

Ids(m) == [chat_id |-> m.chat_id, message_id |-> m.message_id]

EffBlank ==
    [kind |-> "none", chat |-> 0, active0 |-> FALSE, probe |-> "none",
     fetch |-> "none", edit |-> "none", send |-> "none", notices |-> 0,
     replies |-> 0, logs |-> 0, out |-> "none"]

\* the invocation starts; active0: a handle is held at that moment
EffStart(kind, chat) ==
    [EffBlank EXCEPT !.kind = kind, !.chat = chat,
                     !.active0 = (live_msg # None), !.out = "run"]

Log(e, n) == [e EXCEPT !.logs = @ + n]

\* An invocation that has ended stays "done", showing what it did, for one
\* step: Return, which touches nothing the program reads, is taken before
\* anything else moves.
Running == \A q \in Procs : pc[q] # "done"

\* the invocation ends: it returned ("ok"), an exception left it ("abort"),
\* or check_perms stopped the update ("reject")
Finish(p, e, out) ==
    /\ pc' = [pc EXCEPT ![p] = "done"]
    /\ req' = [req EXCEPT ![p] = None]
    /\ resp' = [resp EXCEPT ![p] = None]
    /\ eff' = [eff EXCEPT ![p] = [e EXCEPT !.out = out]]

\* the invocation awaits a Bot API call
Call(p, label, r, e) ==
    /\ pc' = [pc EXCEPT ![p] = label]
    /\ req' = [req EXCEPT ![p] = Some(r)]
    /\ resp' = [resp EXCEPT ![p] = None]
    /\ eff' = [eff EXCEPT ![p] = e]

EditReq(chat_id, message_id, text, mode) ==
    [method |-> "edit_message_text", chat_id |-> chat_id,
     message_id |-> message_id, reply_to |-> 0, text |-> text,
     parse_mode |-> mode, live |-> TRUE]

SendReq(chat_id, reply_to, text, mode, live) ==
    [method |-> "send_message", chat_id |-> chat_id, message_id |-> 0,
     reply_to |-> reply_to, text |-> text, parse_mode |-> mode,
     live |-> live]

\* requests.get(...).json()["body"] raises (None) or get_user_list returns
FetchResults == {None} \cup {Some(s) : s \in Snapshots}

\* ------------------------------------------------------- get_live_message
\* line 95: the probe edit of the recorded message
ProbeReq(rec) == EditReq(rec.chat_id, rec.message_id, Initializing, "plain")

\* the handle is assigned whatever the probe answered
AfterProbeAssigns(answer, cur) == Some(answer.msg)

\* a failed probe clears the handle
AfterProbeClears(answer, cur) == IF answer.ok THEN Some(answer.msg) ELSE None

\* lines 101-107: what bot_data["live_msg"] holds once the probe has answered
AfterProbe(answer, cur) == IF answer.ok THEN Some(answer.msg) ELSE cur

\* a failed edit drops the handle
AfterEditDrops(answer, cur) == IF answer.ok THEN Some(answer.msg) ELSE None

\* line 151: the assignment happens unless edit_text raised
AfterEdit(answer, cur) == IF answer.ok THEN Some(answer.msg) ELSE cur

\* line 150
NeedsEdit(text, msg) == text # text_markdown_v2(msg)

\* the identifiers compared never match (a string against an integer)
RejectedAlways(chat) == TRUE

\* line 162
Rejected(chat) == chat \notin allowed_groups

\* the two numbers written in the other order
RecordOfSwapped(chat, sent_message) ==
    [chat_id |-> sent_message.message_id, message_id |-> chat]

\* line 139: f"{update.effective_chat.id},{sent_message.message_id}"
RecordOf(chat, sent_message) ==
    [chat_id |-> chat, message_id |-> sent_message.message_id]

\* line 123-127: the notice
NoticeReq(chat, msg) ==
    SendReq(chat, msg.message_id, <<"Live message already exists">>, "plain",
            FALSE)

\* ---------------------------------------------------- update_live_message
\* the failure of the fetch is swallowed and the job goes on with empty lists
SynchronizeSwallows(lm, e) ==
    IF lm = None THEN Finish("tick", Log(e, 1), "ok")
    ELSE \E f \in FetchResults :
           LET lists == IF f = None THEN <<<<>>, <<>>>> ELSE Val(f)
               text == format_user_list(lists[1], lists[2])
               e2 == [e EXCEPT !.fetch = IF f = None THEN "fail" ELSE "ok"]
           IN IF NeedsEdit(text, Val(lm))
              THEN Call("tick", "edit",
                        EditReq(Val(lm).chat_id, Val(lm).message_id,
                                text, "MarkdownV2"),
                        [e2 EXCEPT !.edit = "sent"])
              ELSE Finish("tick", e2, "ok")

\* a variant that creates the live message when there is none
SynchronizeCreates(lm, e) ==
    \E f \in FetchResults :
       IF f = None
       THEN Finish("tick", [e EXCEPT !.fetch = "fail"], "abort")
       ELSE LET text == format_user_list(Val(f)[1], Val(f)[2])
                e2 == [e EXCEPT !.fetch = "ok"]
            IN IF lm = None
               THEN Call("tick", "send",
                         SendReq(1, 0, text, "MarkdownV2", TRUE),
                         [e2 EXCEPT !.send = "sent"])
               ELSE IF NeedsEdit(text, Val(lm))
               THEN Call("tick", "edit",
                         EditReq(Val(lm).chat_id, Val(lm).message_id,
                                 text, "MarkdownV2"),
                         [e2 EXCEPT !.edit = "sent"])
               ELSE Finish("tick", e2, "ok")

\* lines 147-152, lm being what get_live_message returned
Synchronize(lm, e) ==
    IF lm = None THEN Finish("tick", Log(e, 1), "ok")
    ELSE \E f \in FetchResults :
           IF f = None
           THEN Finish("tick", [e EXCEPT !.fetch = "fail"], "abort")
           ELSE LET text == format_user_list(Val(f)[1], Val(f)[2])
                    e2 == [e EXCEPT !.fetch = "ok"]
                IN IF NeedsEdit(text, Val(lm))
                   THEN Call("tick", "edit",
                             EditReq(Val(lm).chat_id, Val(lm).message_id,
                                     text, "MarkdownV2"),
                             [e2 EXCEPT !.edit = "sent"])
                   ELSE Finish("tick", e2, "ok")

\* the job fires: get_live_message up to its await, or all of the job when
\* nothing is awaited
TickStart ==
    /\ Running
    /\ UNCHANGED pure
    /\ pc["tick"] = "idle"
    /\ UNCHANGED <<live_msg, file, srv, created, sent>>
    /\ LET e == EffStart("tick", 0)
       IN IF live_msg # None THEN Synchronize(live_msg, e)
          ELSE IF file = None THEN Synchronize(None, Log(e, 2))
          ELSE Call("tick", "probe", ProbeReq(Val(file)),
                    [Log(e, 1) EXCEPT !.probe = "sent"])

\* the probe edit answered: lines 100-110, then the rest of the job
TickProbeResume ==
    /\ Running
    /\ UNCHANGED pure
    /\ pc["tick"] = "probe" /\ resp["tick"] # None
    /\ LET a == Val(resp["tick"])
           lm == AfterProbe(a, live_msg)
           e == [Log(eff["tick"], 1) EXCEPT !.probe = a.why]
       IN /\ live_msg' = lm
          /\ Synchronize(lm, e)
    /\ UNCHANGED <<file, srv, created, sent>>

\* line 151: the status edit answered
TickEditResume ==
    /\ Running
    /\ UNCHANGED pure
    /\ pc["tick"] = "edit" /\ resp["tick"] # None
    /\ LET a == Val(resp["tick"])
       IN /\ live_msg' = AfterEdit(a, live_msg)
          /\ Finish("tick", [eff["tick"] EXCEPT !.edit = a.why],
                    IF a.ok THEN "ok" ELSE "abort")
    /\ UNCHANGED <<file, srv, created, sent>>

\* ------------------------------------------------------ ts_get_users_live
\* a variant that sends whatever the fetch did
CreateOrNoticeUnfetched(lm, chat, e) ==
    IF lm # None
    THEN Call("cmd", "notice", NoticeReq(chat, Val(lm)),
              [e EXCEPT !.notices = @ + 1])
    ELSE \E f \in FetchResults :
           LET text == IF f = None THEN format_user_list(<<>>, <<>>)
                       ELSE format_user_list(Val(f)[1], Val(f)[2])
           IN Call("cmd", "send",
                   SendReq(chat, 0, text, "MarkdownV2", TRUE),
                   [Log(e, 1) EXCEPT !.fetch = IF f = None THEN "fail"
                                               ELSE "ok",
                                     !.send = "sent"])

\* lines 121-133, lm being what get_live_message returned
CreateOrNotice(lm, chat, e) ==
    IF lm # None
    THEN Call("cmd", "notice", NoticeReq(chat, Val(lm)),
              [e EXCEPT !.notices = @ + 1])
    ELSE \E f \in FetchResults :
           IF f = None
           THEN Finish("cmd", [Log(e, 1) EXCEPT !.fetch = "fail"], "abort")
           ELSE LET text == format_user_list(Val(f)[1], Val(f)[2])
                IN Call("cmd", "send",
                        SendReq(chat, 0, text, "MarkdownV2", TRUE),
                        [Log(e, 1) EXCEPT !.fetch = "ok", !.send = "sent"])

\* reply_text / reply_html of /help, /whoami and /ts: the handler awaits the
\* send and ends; it reads and writes nothing a job run or another handler
\* touches, so the send and its answer are taken in the handler's one step
Reply(text, mode, e) ==
    IF Stored(text, mode).ok
    THEN Finish("cmd", [e EXCEPT !.replies = @ + 1], "ok")
    ELSE Finish("cmd", e, "abort")

\* an update arrives: check_perms (group -1), then the command's handler up
\* to its first await
CmdStart(chat, cmd) ==
    /\ Running
    /\ UNCHANGED pure
    /\ pc["cmd"] = "idle"
    /\ UNCHANGED <<live_msg, file, srv, created, sent>>
    /\ LET e == EffStart(cmd, chat)
       IN IF Rejected(chat) THEN Finish("cmd", Log(e, 1), "reject")
          ELSE IF cmd = "help" THEN Reply(<<"Help!">>, "plain", e)
          ELSE IF cmd = "whoami" THEN Reply(<<"Your user ID">>, "plain", e)
          ELSE IF cmd = "ts"
          THEN \E f \in FetchResults :
                 IF f = None
                 THEN Finish("cmd", [e EXCEPT !.fetch = "fail"], "abort")
                 ELSE Reply(format_user_list(Val(f)[1], Val(f)[2]),
                            "MarkdownV2", [e EXCEPT !.fetch = "ok"])
          ELSE IF live_msg # None THEN CreateOrNotice(live_msg, chat, e)
          ELSE IF file = None THEN CreateOrNotice(None, chat, Log(e, 2))
          ELSE Call("cmd", "probe", ProbeReq(Val(file)),
                    [Log(e, 1) EXCEPT !.probe = "sent"])

\* /tslive: the probe edit answered
CmdProbeResume ==
    /\ Running
    /\ UNCHANGED pure
    /\ pc["cmd"] = "probe" /\ resp["cmd"] # None
    /\ LET a == Val(resp["cmd"])
           lm == AfterProbe(a, live_msg)
           e == [Log(eff["cmd"], 1) EXCEPT !.probe = a.why]
       IN /\ live_msg' = lm
          /\ CreateOrNotice(lm, eff["cmd"].chat, e)
    /\ UNCHANGED <<file, srv, created, sent>>

\* /tslive: the send of the notice answered
CmdNoticeResume ==
    /\ Running
    /\ UNCHANGED pure
    /\ pc["cmd"] = "notice" /\ resp["cmd"] # None
    /\ LET a == Val(resp["cmd"])
       IN Finish("cmd",
                 [eff["cmd"] EXCEPT !.replies = IF a.ok THEN 1 ELSE 0],
                 IF a.ok THEN "ok" ELSE "abort")
    /\ UNCHANGED <<live_msg, file, srv, created, sent>>

\* /tslive: the send of the new live message answered; lines 134-139
CmdSendResume ==
    /\ Running
    /\ UNCHANGED pure
    /\ pc["cmd"] = "send" /\ resp["cmd"] # None
    /\ LET a == Val(resp["cmd"])
           e == [eff["cmd"] EXCEPT !.send = a.why]
       IN IF ~a.ok
          THEN /\ Finish("cmd", e, "abort")
               /\ UNCHANGED <<live_msg, file, created, sent>>
          ELSE /\ live_msg' = Some(a.msg)
               /\ sent' = Some(Ids(a.msg))
               /\ created' = IF created < MaxCreated THEN created + 1
                             ELSE created
               /\ \/ /\ file' = Some(RecordOf(eff["cmd"].chat, a.msg))
                     /\ Finish("cmd", e, "ok")
                  \/ \* os.makedirs, open or write raises
                     /\ file' = file
                     /\ Finish("cmd", e, "abort")
    /\ UNCHANGED srv

\* the coroutine is gone; the next update or job run may start
Return(p) ==
    /\ UNCHANGED pure
    /\ pc[p] = "done"
    /\ pc' = [pc EXCEPT ![p] = "idle"]
    /\ eff' = [eff EXCEPT ![p] = EffBlank]
    /\ UNCHANGED <<live_msg, file, srv, req, resp, created, sent>>

\* ------------------------------------------------------------ the Bot API
Failure(why) ==
    [ok |-> FALSE, why |-> why,
     msg |-> [chat_id |-> 0, message_id |-> 0, text |-> <<>>]]
Success(chat_id, message_id, text) ==
    [ok |-> TRUE, why |-> "ok",
     msg |-> [chat_id |-> chat_id, message_id |-> message_id, text |-> text]]

Answer(p, a) == resp' = [resp EXCEPT ![p] = Some(a)]

\* Telegram handles the request of invocation p; the coroutine resumes later
Telegram(p) ==
    /\ Running
    /\ UNCHANGED pure
    /\ req[p] # None /\ resp[p] = None
    /\ UNCHANGED <<live_msg, file, pc, req, eff, created, sent>>
    /\ LET r == Val(req[p])
           st == Stored(r.text, r.parse_mode)
           k == <<r.chat_id, r.message_id>>
       IN \/ \* NetworkError, TimedOut: nothing reached the chat
             /\ Answer(p, Failure("net"))
             /\ UNCHANGED srv
          \/ \* editMessageText
             /\ r.method = "edit_message_text"
             /\ IF ~st.ok
                THEN Answer(p, Failure("parse")) /\ UNCHANGED srv
                ELSE IF srv[k].st # "msg"
                THEN Answer(p, Failure("gone")) /\ UNCHANGED srv
                ELSE IF srv[k].text = st.text
                THEN \* "Bad Request: message is not modified"
                     Answer(p, Failure("same")) /\ UNCHANGED srv
                ELSE /\ srv' = [srv EXCEPT ![k].text = st.text]
                     /\ Answer(p, Success(r.chat_id, r.message_id, st.text))
          \/ \* sendMessage of a new live status message
             /\ r.method = "send_message" /\ r.live
             /\ IF ~st.ok
                THEN Answer(p, Failure("parse")) /\ UNCHANGED srv
                ELSE \E id \in MsgIds :
                       /\ srv[<<r.chat_id, id>>].st = "free"
                       /\ \A j \in 1..(id - 1) :
                              srv[<<r.chat_id, j>>].st # "free"
                       /\ srv' = [srv EXCEPT ![<<r.chat_id, id>>] =
                                      [st |-> "msg", text |-> st.text]]
                       /\ Answer(p, Success(r.chat_id, id, st.text))
          \/ \* sendMessage of the notice
             /\ r.method = "send_message" /\ ~r.live
             /\ UNCHANGED srv
             /\ \E found \in
                    IF r.reply_to = 0 THEN {TRUE}
                    ELSE IF srv[<<r.chat_id, r.reply_to>>].st = "msg"
                    THEN {TRUE}
                    ELSE IF srv[<<r.chat_id, r.reply_to>>].st = "gone"
                    THEN {FALSE}
                    ELSE BOOLEAN :
                  IF ~st.ok THEN Answer(p, Failure("parse"))
                  ELSE IF ~found THEN Answer(p, Failure("gone"))
                  ELSE Answer(p, Success(r.chat_id, 0, st.text))

\* somebody deletes a live status message in the chat
DeleteMessage(k) ==
    /\ Running
    /\ UNCHANGED pure
    /\ srv[k].st = "msg"
    /\ srv' = [srv EXCEPT ![k] = [st |-> "gone", text |-> <<>>]]
    /\ UNCHANGED <<live_msg, file, pc, req, resp, eff, created, sent>>

\* ------------------------------------------------------- the specification
Free == [st |-> "free", text |-> <<>>]

\* what an earlier process may have left in the recorded message
OldTexts ==
    {Stored(Initializing, "plain").text}
    \cup {Stored(format_user_list(s[1], s[2]), "MarkdownV2").text :
            s \in {t \in Snapshots :
                     Stored(format_user_list(t[1], t[2]), "MarkdownV2").ok}}

\* no presence answer is being looked at
NoPayload ==
    /\ payload = <<>>
    /\ fetched = None
    /\ earlier = None
    /\ formatted = None

\* a fresh process: no handle; no record, or the record an earlier process
\* wrote for a message that still exists or was deleted since
Init ==
    /\ NoPayload
    /\ live_msg = None
    /\ pc = [p \in Procs |-> "idle"]
    /\ req = [p \in Procs |-> None]
    /\ resp = [p \in Procs |-> None]
    /\ eff = [p \in Procs |-> EffBlank]
    /\ created = 0
    /\ sent = None
    /\ \/ /\ file = None
          /\ srv = [k \in Keys |-> Free]
       \/ \E old \in {[st |-> "gone", text |-> <<>>]}
                     \cup {[st |-> "msg", text |-> t] : t \in OldTexts} :
            /\ file = Some([chat_id |-> 1, message_id |-> 1])
            /\ srv = [k \in Keys |->
                        IF k = <<1, 1>> THEN old ELSE Free]

Next ==
    \/ TickStart
    \/ TickProbeResume
    \/ TickEditResume
    \/ \E chat \in Chats, cmd \in Commands : CmdStart(chat, cmd)
    \/ CmdProbeResume
    \/ CmdNoticeResume
    \/ CmdSendResume
    \/ \E p \in Procs : Telegram(p)
    \/ \E p \in Procs : Return(p)
    \/ \E k \in Keys : DeleteMessage(k)

Spec == Init /\ [][Next]_vars

\* ------------------------------------- the fetcher and the formatter alone
\* entries in one presence answer given to the fetcher taken alone
MaxEntries == 2

\* nicknames: two that differ only in case, one with a character that
\* escape_markdown escapes
PureNicknames == {<<"a">>, <<"B">>, <<"b">>, <<"c", "_">>}
PureEntries ==
    [client_type : {"0", "1"}, client_nickname : PureNicknames,
     client_away : {"0", "1"}, client_output_muted : {"0", "1"}]
\* the same entries in every order
Reorderings(b) ==
    {[i \in 1..Len(b) |-> b[q[i]]] : q \in Orders(1..Len(b))}

\* a client has connected: the endpoint answers with one more entry
Join(e) ==
    /\ Len(payload) < MaxEntries
    /\ payload' = Append(payload, e)
    /\ fetched' = None /\ earlier' = None /\ formatted' = None
    /\ UNCHANGED bot

\* the endpoint answers again with the same entries in another order
Reorder ==
    /\ fetched # None
    /\ \E b \in Reorderings(payload) \ {payload} : payload' = b
    /\ earlier' = fetched
    /\ fetched' = None /\ formatted' = None
    /\ UNCHANGED bot

\* lines 28-36
Fetch ==
    /\ fetched = None
    /\ \E r \in get_user_list(payload) : fetched' = Some(r)
    /\ UNCHANGED <<payload, earlier, formatted>>
    /\ UNCHANGED bot

\* lines 60-72
Format ==
    /\ fetched # None /\ formatted = None
    /\ formatted' = Some(format_user_list(Val(fetched)[1], Val(fetched)[2]))
    /\ UNCHANGED <<payload, fetched, earlier>>
    /\ UNCHANGED bot

InitPure ==
    /\ payload = <<>>
    /\ fetched = None /\ earlier = None /\ formatted = None
    /\ live_msg = None /\ file = None
    /\ srv = [k \in Keys |-> Free]
    /\ pc = [p \in Procs |-> "idle"]
    /\ req = [p \in Procs |-> None]
    /\ resp = [p \in Procs |-> None]
    /\ eff = [p \in Procs |-> EffBlank]
    /\ created = 0
    /\ sent = None

NextPure ==
    \/ \E e \in PureEntries : Join(e)
    \/ Reorder
    \/ Fetch
    \/ Format

SpecPure == InitPure /\ [][NextPure]_vars

\* ----------------------------------------------------------------- claims
\* the invocation of process p took a step
Stepped(p) == pc'[p] # pc[p]

Failed == {"net", "gone", "same", "parse"}

\* C1: a /tslive that arrives while a handle is held sends no live message,
\* issues one notice, in the chat of the live message and in reply to it,
\* fetches nothing, probes nothing, and leaves the handle, the record and
\* the count of live messages as they were.
C1_ActiveCreateRequest ==
    [][(Stepped("cmd") /\ eff'["cmd"].kind = "tslive"
            /\ eff'["cmd"].active0 /\ eff'["cmd"].out # "reject")
       => /\ live_msg' = live_msg /\ file' = file /\ created' = created
          /\ eff'["cmd"].send = "none" /\ eff'["cmd"].fetch = "none"
          /\ eff'["cmd"].probe = "none" /\ eff'["cmd"].notices = 1
          /\ pc'["cmd"] = "notice"
             => /\ Val(req'["cmd"]).method = "send_message"
                /\ ~Val(req'["cmd"]).live
                /\ Val(req'["cmd"]).chat_id = Val(live_msg).chat_id
                /\ Val(req'["cmd"]).reply_to = Val(live_msg).message_id]_vars

\* C2: in one process at most one live status message is ever sent by
\* create-requests, whatever ticks and commands interleave.
C2_AtMostOneLiveMessage == created <= 1

\* C2 witness: a live message was created and a later /tslive got the notice
C2_Witness ==
    /\ created = 1
    /\ pc["cmd"] = "done" /\ eff["cmd"].kind = "tslive"
    /\ eff["cmd"].active0 /\ eff["cmd"].notices = 1 /\ eff["cmd"].out = "ok"

\* C3: an invocation that starts without a handle and whose probe reaches
\* the recorded message, which still exists, ends with a handle for the
\* recorded (chat_id, message_id) and sends no new message.
C3_Recovery ==
    \A p \in Procs :
        (pc[p] = "done" /\ ~eff[p].active0 /\ eff[p].probe \in {"ok", "same"})
        => /\ live_msg # None
           /\ Some(Ids(Val(live_msg))) = file
           /\ eff[p].send = "none"

\* C4: on a tick that holds a handle and fetched the presence, an edit is
\* issued only for a text that differs from the text last rendered, and once
\* Telegram has handled the edit of the message the text last rendered is
\* the text that was formatted (so the same snapshot gives no further edit).
C4_EditIffChanged ==
    [][/\ (Stepped("tick") /\ pc'["tick"] = "edit")
          => Val(req'["tick"]).text # text_markdown_v2(Val(live_msg'))
       /\ (pc["tick"] = "edit" /\ Stepped("tick")
              /\ Val(resp["tick"]).why \notin {"net", "gone"})
          => text_markdown_v2(Val(live_msg')) = Val(req["tick"]).text]_vars

\* C5: an update from a chat outside the allow-list ends in check_perms: no
\* handler, no request to Telegram, no fetch, one log entry, handle and
\* record untouched; an update from an allowed chat is not stopped.
C5_AccessGate ==
    [][(pc["cmd"] = "idle" /\ Stepped("cmd"))
       => IF eff'["cmd"].chat \notin allowed_groups
          THEN /\ pc'["cmd"] = "done" /\ eff'["cmd"].out = "reject"
               /\ eff'["cmd"].replies = 0 /\ eff'["cmd"].notices = 0
               /\ eff'["cmd"].send = "none" /\ eff'["cmd"].probe = "none"
               /\ eff'["cmd"].edit = "none" /\ eff'["cmd"].fetch = "none"
               /\ eff'["cmd"].logs = 1
               /\ req'["cmd"] = None
               /\ UNCHANGED <<live_msg, file, srv, created, sent>>
          ELSE eff'["cmd"].out # "reject"]_vars

\* C5 witness: an update of a stranger chat was stopped while a handle is held
C5_Witness ==
    /\ pc["cmd"] = "done" /\ eff["cmd"].out = "reject"
    /\ eff["cmd"].chat \notin allowed_groups
    /\ live_msg # None

\* C6: when a create-request that sent a new message returns, the record
\* holds the chat of the request and the identifier of the message sent, and
\* the handle is that message.
C6_RecordWritten ==
    (pc["cmd"] = "done" /\ eff["cmd"].send = "ok" /\ eff["cmd"].out = "ok")
    => /\ live_msg # None
       /\ file = Some(Ids(Val(live_msg)))
       /\ Val(live_msg).chat_id = eff["cmd"].chat
       /\ srv[<<Val(file).chat_id, Val(file).message_id>>].st # "free"

\* C6 witness: a create-request has sent a message and returned
C6_Witness ==
    /\ pc["cmd"] = "done" /\ eff["cmd"].send = "ok" /\ eff["cmd"].out = "ok"
    /\ ~eff["cmd"].active0

\* C7 as stated: an invocation whose presence fetch failed has aborted with
\* no reply, no notice, no new message and no message edit at all.
C7_NoEffectAtAll ==
    \A p \in Procs :
        eff[p].fetch = "fail"
        => /\ pc[p] = "done" /\ eff[p].out = "abort"
           /\ eff[p].replies = 0 /\ eff[p].notices = 0
           /\ eff[p].send = "none" /\ eff[p].edit = "none"
           /\ eff[p].probe # "ok"

\* C7 amended: an invocation whose presence fetch failed has aborted at the
\* failure (nothing is awaited or retried after it) with no reply, no notice,
\* no new message and no status edit; the one edit it may have made is the
\* probe's placeholder, which precedes the fetch.
C7_NoEffectAfterFetchFailure ==
    \A p \in Procs :
        eff[p].fetch = "fail"
        => /\ pc[p] = "done" /\ eff[p].out = "abort"
           /\ req[p] = None
           /\ eff[p].replies = 0 /\ eff[p].notices = 0
           /\ eff[p].send = "none" /\ eff[p].edit = "none"

\* C7 witness: a tick recovered the handle and then failed to fetch
C7_Witness ==
    /\ pc["tick"] = "done" /\ eff["tick"].fetch = "fail"
    /\ eff["tick"].probe = "ok"

\* C8: no step takes the handle away once it is held, and no step removes
\* the record.
C8_NeverBackToAbsent ==
    [][/\ live_msg # None => live_msg' # None
       /\ file # None => file' # None]_vars

\* C8 witness: a status edit failed and the handle is still held
C8_Witness ==
    /\ pc["tick"] = "done" /\ eff["tick"].edit \in Failed
    /\ live_msg # None /\ file # None

\* C9: no two invocations have an edit of the live message in flight at the
\* same time.
C9_SingleWriter ==
    ~ /\ req["tick"] # None /\ req["cmd"] # None
      /\ Val(req["tick"]).method = "edit_message_text"
      /\ Val(req["cmd"]).method = "edit_message_text"

\* C10: a probe that failed leaves the handle and the record as they were,
\* and a tick that starts with no handle and a record issues the probe edit
\* of the recorded message.
C10_FailedProbeKeepsRecord ==
    [][/\ \A p \in Procs :
             (pc[p] = "probe" /\ Stepped(p) /\ ~Val(resp[p]).ok)
             => /\ live_msg' = live_msg /\ file' = file
                /\ eff'[p].probe \in Failed
       /\ (pc["tick"] = "idle" /\ Stepped("tick")
              /\ live_msg = None /\ file # None)
          => /\ pc'["tick"] = "probe"
             /\ req'["tick"] =
                    Some(EditReq(Val(file).chat_id, Val(file).message_id,
                                 Initializing, "plain"))]_vars

\* C10 witness: a probe failed; no handle, the record is still there
C10_Witness ==
    /\ pc["tick"] = "done" /\ eff["tick"].probe \in Failed
    /\ live_msg = None /\ file # None

\* C11: once a create-request has sent the live message and the write of
\* the record has failed (the file does not name the sent message), the
\* handle is the sent message from then on, so that it is the message the
\* later ticks edit, and no second live message is created.
C11_WriteFailureKeepsHandle ==
    (sent # None /\ file # sent)
       => /\ live_msg # None /\ Ids(Val(live_msg)) = Val(sent)
          /\ created <= 1

\* the part of C11 that does not depend on which message the handle names:
\* the handle is set when the create-request ends, and stays set
C11_HandleSetDespiteWriteFailure ==
    (sent # None /\ file # sent) => live_msg # None /\ created <= 1

C11_Witness ==
    /\ pc["cmd"] = "done" /\ eff["cmd"].send = "ok"
    /\ eff["cmd"].out = "abort"
    /\ sent # None /\ file # sent
    /\ live_msg # None /\ Ids(Val(live_msg)) = Val(sent)

\* C12: once the handle names a message, every step leaves it naming the
\* same (chat_id, message_id); only its text changes.
C12_HandleIdentityFixed ==
    [][live_msg # None
         => /\ live_msg' # None
            /\ Ids(Val(live_msg')) = Ids(Val(live_msg))]_vars

\* the /tslive handler takes the step in which get_live_message has
\* returned and lines 121-133 run: from the start when nothing is awaited,
\* else when the probe is answered
Decides ==
    /\ Stepped("cmd")
    /\ eff'["cmd"].kind = "tslive" /\ eff'["cmd"].out # "reject"
    /\ \/ pc["cmd"] = "idle" /\ pc'["cmd"] # "probe"
       \/ pc["cmd"] = "probe"

C17_TickOnlyEdits ==
    [][(Stepped("tick") /\ pc["tick"] # "done")
         => /\ file' = file /\ created' = created /\ sent' = sent
            /\ (live_msg' = None /\ pc'["tick"] # "probe")
                 => /\ pc'["tick"] = "done" /\ req'["tick"] = None
                    /\ eff'["tick"].fetch = "none"
                    /\ eff'["tick"].send = "none"
                    /\ eff'["tick"].edit = "none"
                    /\ eff'["tick"].probe \in Failed \cup {"none"}
            /\ req'["tick"] # None
                 => /\ Val(req'["tick"]).method = "edit_message_text"
                    /\ \/ /\ pc'["tick"] = "probe" /\ file # None
                          /\ Ids(Val(req'["tick"])) = Val(file)
                       \/ /\ pc'["tick"] = "edit" /\ live_msg' # None
                          /\ Ids(Val(req'["tick"])) = Ids(Val(live_msg'))]_vars

\* C17 witness: a tick whose probe of the record failed has ended and there
\* is still no handle
C17_Witness ==
    /\ pc["tick"] = "done" /\ eff["tick"].probe \in Failed
    /\ live_msg = None /\ file # None
    /\ eff["tick"].fetch = "none" /\ eff["tick"].edit = "none"

\* C18: when no invocation is in progress and a handle is held, the text
\* of the handle is the text Telegram holds for that message, the one the
\* last successful edit or send put there.
C18_HandleTextIsShownText ==
    ((\A p \in Procs : pc[p] = "idle") /\ live_msg # None)
       => LET k == <<Val(live_msg).chat_id, Val(live_msg).message_id>>
          IN srv[k].st = "msg" => srv[k].text = Val(live_msg).text

\* C19: a tick that holds or recovers a handle while the live message shows
\* the placeholder of a recovery probe and no command is in progress, and
\* whose fetch succeeds, issues the edit that replaces the placeholder by
\* the formatted status.
C19_PlaceholderReplaced ==
    [][(/\ Stepped("tick") /\ pc["tick"] \in {"idle", "probe"}
        /\ pc["cmd"] = "idle"
        /\ live_msg' # None
        /\ LET k == <<Val(live_msg').chat_id, Val(live_msg').message_id>>
           IN /\ srv[k].st = "msg"
              /\ srv[k].text = Stored(Initializing, "plain").text
        /\ eff'["tick"].fetch = "ok")
       => pc'["tick"] = "edit"]_vars

\* ------------------------------------- claims on the fetcher and formatter
\* the set of the members of a list
Elems(q) == {q[i] : i \in DOMAIN q}

\* the entry is a real user with the away flag or the output-mute flag set
Flagged(e) ==
    /\ e.client_type = "0"
    /\ (e.client_away = "1" \/ e.client_output_muted = "1")

\* C13, as stated: the lists the fetcher returned are disjoint, together they
\* hold exactly the nicknames of the entries with client_type 0, and each
\* real user's nickname is in the away list if and only if that user's away
\* flag or output-mute flag is set.
C13_PartitionByUser ==
    fetched # None
       => LET active == Elems(Val(fetched)[1])
              away == Elems(Val(fetched)[2])
          IN /\ active \cap away = {}
             /\ active \cup away = AllNicknames(payload)
             /\ \A i \in Users(payload) :
                   payload[i].client_nickname \in away <=> Flagged(payload[i])

\* C13, amended: the lists are disjoint and without repeats, together they
\* hold exactly the nicknames of the entries with client_type 0, and a
\* nickname is in the away list if and only if some real user of that
\* nickname has the away flag or the output-mute flag set.
C13_PartitionByNickname ==
    fetched # None
       => LET active == Elems(Val(fetched)[1])
              away == Elems(Val(fetched)[2])
          IN /\ active \cap away = {}
             /\ Cardinality(active) = Len(Val(fetched)[1])
             /\ Cardinality(away) = Len(Val(fetched)[2])
             /\ active \cup away
                  = {e.client_nickname :
                       e \in {x \in Elems(payload) : x.client_type = "0"}}
             /\ \A n \in PureNicknames :
                   n \in away <=> \E e \in Elems(payload) :
                                     e.client_nickname = n /\ Flagged(e)

\* C13 witness: the fetcher has returned for two real users who share a
\* nickname, one of them not flagged, the other muted only
C13_Witness ==
    /\ fetched # None
    /\ Val(fetched)[2] # <<>>
    /\ \E i, j \in Users(payload) :
          /\ payload[i].client_nickname = payload[j].client_nickname
          /\ ~Flagged(payload[i])
          /\ payload[j].client_away = "0"
          /\ payload[j].client_output_muted = "1"

\* the characters of s, all in italics or none
Styled(s, it) == [i \in 1..Len(s) |-> [c |-> s[i], it |-> it]]

\* the members of a list, each styled by itself, with ", " between them
RECURSIVE Members(_, _)
Members(xs, it) ==
    IF xs = <<>> THEN <<>>
    ELSE IF Len(xs) = 1 THEN Styled(xs[1], it)
    ELSE Styled(xs[1], it) \o Styled(<<",", " ">>, FALSE)
         \o Members(Tail(xs), it)

\* "<activeCount>+<awayCount>: <active members>", then " + <away members>"
\* when there are away members, as a MarkdownV2 reader shows it
Shape(active, away, awayCountItalic) ==
    Styled(<<NumStr(Len(active)), "+">>, FALSE)
    \o Styled(<<NumStr(Len(away))>>, awayCountItalic)
    \o Styled(<<":", " ">>, FALSE)
    \o Members(active, FALSE)
    \o (IF away # <<>>
        THEN Styled(<<" ", "+", " ">>, FALSE) \o Members(away, TRUE)
        ELSE <<>>)

AscendingLower(q) ==
    \A i, j \in DOMAIN q : i < j => ~StrLess(Lower(q[j]), Lower(q[i]))

\* C15: the active list and the away list the fetcher returned are each
\* ascending by case-insensitive nickname, and they are the lists it returned
\* for the same entries in an earlier order.
C15_OrderIndependent ==
    fetched # None
       => /\ AscendingLower(Val(fetched)[1])
          /\ AscendingLower(Val(fetched)[2])
          /\ (earlier # None => fetched = earlier)

\* the part of C15 that holds: both lists are ascending
C15_Ascending ==
    fetched # None
       => /\ AscendingLower(Val(fetched)[1])
          /\ AscendingLower(Val(fetched)[2])

============================================================================
